---- MODULE Spec2Model ----
(***************************************************************************)
(* Model of the /api/jobs handler search_jobs of src/main.py.              *)
(*                                                                         *)
(* Python strings are sequences of one-character strings, so that lower(), *)
(* strip(), the `in` substring test, replace() and join() are computed and *)
(* not assumed.  Python / JSON values are tagged records: None, a str, an  *)
(* int, a list or a dict.  One invocation of the handler is one behaviour: *)
(* the inputs are drawn in Init, the upstream outcome is drawn when the    *)
(* request is issued, and the for loop handles one record per step.        *)
(***************************************************************************)
EXTENDS Integers, Sequences, FiniteSets, TLC

VARIABLES query, location, category, job_type, remote, limit,
          remotive_params, calls, r, items, idx, jobs, exc, result, pc

vars == <<query, location, category, job_type, remote, limit,
          remotive_params, calls, r, items, idx, jobs, exc, result, pc>>

-----------------------------------------------------------------------------
(* Bounds of the model                                                     *)

MaxItems == 2

-----------------------------------------------------------------------------
(* Program constants                                                       *)

LimitMin == 1
LimitMax == 200

-----------------------------------------------------------------------------
(* Python values                                                           *)

None == [t |-> "none"]
StrV(s) == [t |-> "str", v |-> s]
IntV(n) == [t |-> "int", v |-> n]
BoolV(b) == [t |-> "bool", v |-> b]
ListV(l) == [t |-> "list", v |-> l]
DictV(d) == [t |-> "dict", v |-> d]
NotJson == [t |-> "notjson"]

Min(a, b) == IF a <= b THEN a ELSE b

\* bool(v): None, "", 0, False, [] and {} are falsy
Truthy(x) ==
    CASE x.t = "none" -> FALSE
      [] x.t = "str"  -> x.v # <<>>
      [] x.t = "int"  -> x.v # 0
      [] x.t = "bool" -> x.v
      [] x.t = "list" -> x.v # <<>>
      [] x.t = "dict" -> DOMAIN x.v # {}
      [] OTHER        -> TRUE

\* a or b
Or(a, b) == IF Truthy(a) THEN a ELSE b

\* d.get(key), d a dict
Get(d, key) == IF key \in DOMAIN d.v THEN d.v[key] ELSE None

Digits == <<"0", "1", "2", "3", "4", "5", "6", "7", "8", "9">>

RECURSIVE DecimalOf(_)
DecimalOf(n) == IF n < 10 THEN <<Digits[n + 1]>>
                ELSE DecimalOf(n \div 10) \o <<Digits[(n % 10) + 1]>>

\* str(x) for the values an id can take
PyStr(x) ==
    CASE x.t = "none" -> <<"N","o","n","e">>
      [] x.t = "str"  -> x.v
      [] x.t = "int"  -> IF x.v < 0 THEN <<"-">> \o DecimalOf(-x.v) ELSE DecimalOf(x.v)
      [] x.t = "bool" -> IF x.v THEN <<"T","r","u","e">> ELSE <<"F","a","l","s","e">>

-----------------------------------------------------------------------------
(* str methods (ASCII)                                                     *)

UpperLetters == <<"A","B","C","D","E","F","G","H","I","J","K","L","M","N","O","P","Q","R","S","T","U","V","W","X","Y","Z">>
LowerLetters == <<"a","b","c","d","e","f","g","h","i","j","k","l","m","n","o","p","q","r","s","t","u","v","w","x","y","z">>

LowerChar(c) == IF \E i \in 1..26 : UpperLetters[i] = c
                THEN LowerLetters[CHOOSE i \in 1..26 : UpperLetters[i] = c]
                ELSE c

\* s.lower()
Lower(s) == [i \in 1..Len(s) |-> LowerChar(s[i])]

Whitespace == {" ", "\t", "\n", "\r"}

RECURSIVE LStrip(_)
LStrip(s) == IF s # <<>> /\ s[1] \in Whitespace THEN LStrip(Tail(s)) ELSE s

RECURSIVE RStrip(_)
RStrip(s) == IF s # <<>> /\ s[Len(s)] \in Whitespace
             THEN RStrip(SubSeq(s, 1, Len(s) - 1)) ELSE s

\* s.strip()
Strip(s) == RStrip(LStrip(s))

\* needle in hay
Contains(hay, needle) ==
    \E i \in 0..(Len(hay) - Len(needle)) : SubSeq(hay, i + 1, i + Len(needle)) = needle

\* s.replace(c, by), c a single character
RECURSIVE Replace(_, _, _)
Replace(s, c, by) ==
    IF s = <<>> THEN <<>>
    ELSE (IF s[1] = c THEN by ELSE <<s[1]>>) \o Replace(Tail(s), c, by)

\* " ".join(parts)
RECURSIVE JoinSpace(_)
JoinSpace(parts) ==
    IF parts = <<>> THEN <<>>
    ELSE IF Len(parts) = 1 THEN parts[1]
    ELSE parts[1] \o <<" ">> \o JoinSpace(Tail(parts))

-----------------------------------------------------------------------------
(* The Job model                                                           *)

JobFields == {"id", "title", "company", "location", "type", "salary",
              "url", "source", "tags", "description"}

IsStr(x) == x.t = "str"
IsOptStr(x) == x.t \in {"none", "str"}
IsOptStrList(x) == x.t = "none" \/ (x.t = "list" /\ \A i \in 1..Len(x.v) : IsStr(x.v[i]))

\* validation done by the constructor of Job: id, title, url and source are
\* str, the others Optional (no coercion of other types to str)
ValidJob(j) ==
    /\ IsStr(j.id) /\ IsStr(j.title) /\ IsStr(j.url) /\ IsStr(j.source)
    /\ IsOptStr(j.company) /\ IsOptStr(j.location) /\ IsOptStr(j.type)
    /\ IsOptStr(j.salary) /\ IsOptStr(j.description)
    /\ IsOptStrList(j.tags)

-----------------------------------------------------------------------------
(* Normalization and filters of the loop body                              *)

\* variant: item.get("title", "Untitled"), a default for an absent key only
NormalizeTitleAbsentOnly(item) ==
    IF "title" \in DOMAIN item.v THEN item.v["title"] ELSE StrV(<<"U","n","t","i","t","l","e","d">>)

NormalizeTitle(item) == Or(Get(item, "title"), StrV(<<"U","n","t","i","t","l","e","d">>))

\* the arguments of Job(...) for one upstream record
NormalizeItem(item) ==
    [id          |-> StrV(PyStr(Get(item, "id"))),
     title       |-> NormalizeTitle(item),
     company     |-> Get(item, "company_name"),
     location    |-> Get(item, "candidate_required_location"),
     type        |-> Get(item, "job_type"),
     salary      |-> Get(item, "salary"),
     url         |-> Get(item, "url"),
     source      |-> StrV(<<"R","e","m","o","t","i","v","e">>),
     tags        |-> Get(item, "tags"),
     description |-> Get(item, "description")]

remote_synonyms == {<<"r","e","m","o","t","e">>, <<"a","n","y","w","h","e","r","e">>, <<"w","o","r","l","d","w","i","d","e">>, <<"g","l","o","b","a","l">>}

\* (job.location or "").lower()
LocSrc(job) == Lower(Or(job.location, StrV(<<>>)).v)

AnySynonymIn(loc_src) == \E s \in remote_synonyms : Contains(loc_src, s)

\* variant: the user's location is compared without strip()
LocationFilterKeepsNoStrip(job, loc) ==
    IF Truthy(loc)
    THEN IF ~Contains(LocSrc(job), Lower(loc.v))
         THEN Lower(loc.v) \in remote_synonyms /\ AnySynonymIn(LocSrc(job))
         ELSE TRUE
    ELSE TRUE

\* FALSE when the location filter executes `continue`
LocationFilterKeeps(job, loc) ==
    IF Truthy(loc)
    THEN IF ~Contains(LocSrc(job), Lower(loc.v))
         THEN LET user_loc == Strip(Lower(loc.v))
              IN  user_loc \in remote_synonyms /\ AnySynonymIn(LocSrc(job))
         ELSE TRUE
    ELSE TRUE

\* variant: `if remote is not None`, so that remote=false filters too
RemoteFilterKeepsAnyBool(job, rem) ==
    IF rem.t = "bool"
    THEN AnySynonymIn(LocSrc(job))
    ELSE TRUE

\* FALSE when the remote filter executes `continue`
RemoteFilterKeeps(job, rem) ==
    IF rem = BoolV(TRUE)
    THEN AnySynonymIn(LocSrc(job))
    ELSE TRUE

-----------------------------------------------------------------------------
(* Fallback entries                                                        *)

FallbackQ(qry, loc) ==
    LET parts == SelectSeq(<<qry, loc>>, Truthy)
    IN  JoinSpace([i \in 1..Len(parts) |-> parts[i].v])

providers(q) ==
    << <<<<"G","o","o","g","l","e"," ","J","o","b","s">>,
         <<"h","t","t","p","s",":","/","/","w","w","w",".","g","o","o","g","l","e",".","c","o","m","/","s","e","a","r","c","h","?","q","=">> \o Replace(q, " ", <<"+">>) \o <<"+","j","o","b","s">>>>,
       <<<<"L","i","n","k","e","d","I","n">>,
         <<"h","t","t","p","s",":","/","/","w","w","w",".","l","i","n","k","e","d","i","n",".","c","o","m","/","j","o","b","s","/","s","e","a","r","c","h","/","?","k","e","y","w","o","r","d","s","=">> \o Replace(q, " ", <<"%","2","0">>)>>,
       <<<<"I","n","d","e","e","d">>,
         <<"h","t","t","p","s",":","/","/","w","w","w",".","i","n","d","e","e","d",".","c","o","m","/","j","o","b","s","?","q","=">> \o Replace(q, " ", <<"+">>)>> >>

\* variant: enumerate(providers, 1)
FallbackJobFromOne(i, name, url, q, loc) ==
    [id          |-> StrV(<<"f","a","l","l","b","a","c","k","-">> \o DecimalOf(i + 1)),
     title       |-> StrV(<<"S","e","a","r","c","h"," ","'">> \o q \o <<"'"," ","o","n"," ">> \o name),
     company     |-> None,
     location    |-> loc,
     type        |-> None,
     salary      |-> None,
     url         |-> StrV(url),
     source      |-> StrV(name),
     tags        |-> None,
     description |-> None]

FallbackJob(i, name, url, q, loc) ==
    [id          |-> StrV(<<"f","a","l","l","b","a","c","k","-">> \o DecimalOf(i)),
     title       |-> StrV(<<"S","e","a","r","c","h"," ","'">> \o q \o <<"'"," ","o","n"," ">> \o name),
     company     |-> None,
     location    |-> loc,
     type        |-> None,
     salary      |-> None,
     url         |-> StrV(url),
     source      |-> StrV(name),
     tags        |-> None,
     description |-> None]

FallbackJobs(qry, loc) ==
    LET q == FallbackQ(qry, loc)
        p == providers(q)
    IN  [i \in 1..Len(p) |-> FallbackJob(i - 1, p[i][1], p[i][2], q, loc)]

\* variant: `if not jobs and query`
NeedsFallbackQueryOnly(js, qry, loc) == js = <<>> /\ Truthy(qry)

NeedsFallback(js, qry, loc) == js = <<>> /\ (Truthy(qry) \/ Truthy(loc))

\* variant: return jobs
TrimNothing(js, lim) == js

\* variant: jobs[-limit:]
TrimFromEnd(js, lim) == SubSeq(js, Len(js) - Min(lim, Len(js)) + 1, Len(js))

\* jobs[:limit], limit >= 1
Trim(js, lim) == SubSeq(js, 1, Min(lim, Len(js)))

-----------------------------------------------------------------------------
(* Inputs                                                                  *)

Queries == {None, StrV(<<>>), StrV(<<"e","n","g","i","n","e","e","r">>)}
Locations == {None, StrV(<<" ","R","e","m","o","t","e"," ">>), StrV(<<"b","e","r","l","i","n">>)}
Categories == {StrV(<<>>), StrV(<<"s","o","f","t","w","a","r","e","-","d","e","v">>)}
JobTypes == {None, StrV(<<"f","u","l","l","_","t","i","m","e">>)}
Remotes == {None, BoolV(TRUE), BoolV(FALSE)}
Limits == {LimitMin, 2, LimitMax}

Rec1 == DictV([id |-> IntV(1), title |-> StrV(<<"D","e","v">>), company_name |-> StrV(<<"A","c","m","e">>),
              candidate_required_location |-> StrV(<<"A","n","y","w","h","e","r","e"," ","i","n"," ","t","h","e"," ","W","o","r","l","d">>),
              job_type |-> StrV(<<"f","u","l","l","_","t","i","m","e">>), salary |-> StrV(<<>>),
              url |-> StrV(<<"h","t","t","p","s",":","/","/","r",".","c","o","/","1">>), tags |-> ListV(<<StrV(<<"p","y">>)>>),
              description |-> StrV(<<"d">>)])
Rec2 == DictV([id |-> IntV(22), candidate_required_location |-> StrV(<<"B","e","r","l","i","n",","," ","G","e","r","m","a","n","y">>),
              url |-> StrV(<<"h","t","t","p","s",":","/","/","r",".","c","o","/","2">>)])
Rec3 == DictV([id |-> IntV(3), title |-> None, url |-> StrV(<<"h","t","t","p","s",":","/","/","r",".","c","o","/","3">>)])
Rec4 == DictV([id |-> IntV(4), title |-> StrV(<<>>),
              candidate_required_location |-> StrV(<<"R","e","m","o","t","e">>),
              url |-> StrV(<<"h","t","t","p","s",":","/","/","r",".","c","o","/","4">>)])
\* no url: Job(...) raises a validation error
Rec5 == DictV([id |-> IntV(5), title |-> StrV(<<"Q","A">>),
              candidate_required_location |-> StrV(<<"W","o","r","l","d","w","i","d","e">>)])
Records == {Rec1, Rec2, Rec3, Rec4, Rec5}

RecordLists == UNION {[1..n -> Records] : n \in 0..MaxItems}

\* bodies of a response: not JSON, JSON that is not an object, an object
\* without "jobs", with "jobs": null, with a "jobs" array holding a string
\* (item.get raises AttributeError), and with a "jobs" array of records
Bodies == {NotJson, ListV(<<>>), DictV(<<>>), DictV([jobs |-> None]),
           DictV([jobs |-> ListV(<<Rec1, StrV(<<"x">>)>>)])}
            \cup {DictV([jobs |-> ListV(l)]) : l \in RecordLists}

Responses == {[ok |-> FALSE, body |-> DictV([jobs |-> ListV(<<Rec1>>)])]}
               \cup {[ok |-> TRUE, body |-> b] : b \in Bodies}

NoResponse == [ok |-> FALSE, body |-> None]

-----------------------------------------------------------------------------
(* The handler                                                             *)

Init ==
    /\ query \in Queries
    /\ location \in Locations
    /\ category \in Categories
    /\ job_type \in JobTypes
    /\ remote \in Remotes
    /\ limit \in Limits
    /\ remotive_params = <<>>
    /\ calls = 0
    /\ r = NoResponse
    /\ items = <<>>
    /\ idx = 1
    /\ jobs = <<>>
    /\ exc = "none"
    /\ result = <<>>
    /\ pc = "params"

\* variant: the location is sent upstream too
RemotiveParamsWithLocation(qry, cat, jt) ==
    LET arg == [search |-> qry, category |-> cat, job_type |-> jt, location |-> location]
        keys == {k \in DOMAIN arg : Truthy(arg[k])}
    IN  [k \in keys |-> arg[k].v]

\* remotive_params = {}; if query: ...; if category: ...; if job_type: ...
RemotiveParams(qry, cat, jt) ==
    LET arg == [search |-> qry, category |-> cat, job_type |-> jt]
        keys == {k \in DOMAIN arg : Truthy(arg[k])}
    IN  [k \in keys |-> arg[k].v]

BuildParams ==
    /\ pc = "params"
    /\ remotive_params' = RemotiveParams(query, category, job_type)
    /\ pc' = "request"
    /\ UNCHANGED <<query, location, category, job_type, remote, limit,
                   calls, r, items, idx, jobs, exc, result>>

\* requests.get raises: connection error or timeout
RequestRaises ==
    /\ pc = "request"
    /\ calls' = calls + 1
    /\ exc' = "RequestException"
    /\ pc' = "except"
    /\ UNCHANGED <<query, location, category, job_type, remote, limit,
                   remotive_params, r, items, idx, jobs, result>>

\* requests.get returns a response
RequestReturns ==
    /\ pc = "request"
    /\ calls' = calls + 1
    /\ \E resp \in Responses : r' = resp
    /\ pc' = "response"
    /\ UNCHANGED <<query, location, category, job_type, remote, limit,
                   remotive_params, items, idx, jobs, exc, result>>

\* if r.ok: data = r.json(); for item in data.get("jobs", []):
HandleResponse ==
    /\ pc = "response"
    /\ IF ~r.ok
       THEN /\ pc' = "fallback"
            /\ UNCHANGED <<items, exc>>
       ELSE IF r.body.t = "notjson"
       THEN /\ exc' = "JSONDecodeError"
            /\ pc' = "except"
            /\ UNCHANGED items
       ELSE IF r.body.t # "dict"
       THEN /\ exc' = "AttributeError"
            /\ pc' = "except"
            /\ UNCHANGED items
       ELSE IF "jobs" \notin DOMAIN r.body.v
       THEN /\ items' = <<>>
            /\ pc' = "loop"
            /\ UNCHANGED exc
       ELSE IF r.body.v["jobs"].t # "list"
       THEN /\ exc' = "TypeError"
            /\ pc' = "except"
            /\ UNCHANGED items
       ELSE /\ items' = r.body.v["jobs"].v
            /\ pc' = "loop"
            /\ UNCHANGED exc
    /\ UNCHANGED <<query, location, category, job_type, remote, limit,
                   remotive_params, calls, r, idx, jobs, result>>

\* variant: the try/except sits inside the loop, so a malformed record is
\* skipped and the later records are still handled
LoopStepSkipsMalformed ==
    /\ pc = "loop"
    /\ idx <= Len(items)
    /\ LET item == items[idx] IN
       IF item.t # "dict"
       THEN /\ exc' = "AttributeError"
            /\ idx' = idx + 1
            /\ UNCHANGED <<pc, jobs>>
       ELSE LET job == NormalizeItem(item) IN
            IF ~ValidJob(job)
            THEN /\ exc' = "ValidationError"
                 /\ idx' = idx + 1
                 /\ UNCHANGED <<pc, jobs>>
            ELSE /\ jobs' = IF LocationFilterKeeps(job, location)
                               /\ RemoteFilterKeeps(job, remote)
                            THEN Append(jobs, job)
                            ELSE jobs
                 /\ idx' = idx + 1
                 /\ UNCHANGED <<exc, pc>>
    /\ UNCHANGED <<query, location, category, job_type, remote, limit,
                   remotive_params, calls, r, items, result>>

\* one iteration of the for loop
LoopStep ==
    /\ pc = "loop"
    /\ idx <= Len(items)
    /\ LET item == items[idx] IN
       IF item.t # "dict"
       THEN /\ exc' = "AttributeError"
            /\ pc' = "except"
            /\ UNCHANGED <<idx, jobs>>
       ELSE LET job == NormalizeItem(item) IN
            IF ~ValidJob(job)
            THEN /\ exc' = "ValidationError"
                 /\ pc' = "except"
                 /\ UNCHANGED <<idx, jobs>>
            ELSE /\ jobs' = IF LocationFilterKeeps(job, location)
                               /\ RemoteFilterKeeps(job, remote)
                            THEN Append(jobs, job)
                            ELSE jobs
                 /\ idx' = idx + 1
                 /\ UNCHANGED <<exc, pc>>
    /\ UNCHANGED <<query, location, category, job_type, remote, limit,
                   remotive_params, calls, r, items, result>>

\* the for loop is exhausted
LoopExit ==
    /\ pc = "loop"
    /\ idx > Len(items)
    /\ pc' = "fallback"
    /\ UNCHANGED <<query, location, category, job_type, remote, limit,
                   remotive_params, calls, r, items, idx, jobs, exc, result>>

ExceptionSubclasses == {"RequestException", "JSONDecodeError", "AttributeError",
                        "TypeError", "ValidationError"}

\* variant: except requests.RequestException:
CatchesRequestErrorsOnly(e) == e = "RequestException"

\* except Exception:
Catches(e) == e \in ExceptionSubclasses

\* except Exception: pass
Except ==
    /\ pc = "except"
    /\ pc' = IF Catches(exc) THEN "fallback" ELSE "error"
    /\ UNCHANGED <<query, location, category, job_type, remote, limit,
                   remotive_params, calls, r, items, idx, jobs, exc, result>>

\* if not jobs and (query or location): ... jobs.append(Job(...))
Fallback ==
    /\ pc = "fallback"
    /\ IF NeedsFallback(jobs, query, location)
       THEN LET fb == FallbackJobs(query, location) IN
            IF \A i \in 1..Len(fb) : ValidJob(fb[i])
            THEN jobs' = jobs \o fb /\ pc' = "trim"
            ELSE UNCHANGED jobs /\ pc' = "error"
       ELSE UNCHANGED jobs /\ pc' = "trim"
    /\ UNCHANGED <<query, location, category, job_type, remote, limit,
                   remotive_params, calls, r, items, idx, exc, result>>

\* return jobs[:limit]
Return ==
    /\ pc = "trim"
    /\ result' = Trim(jobs, limit)
    /\ pc' = "done"
    /\ UNCHANGED <<query, location, category, job_type, remote, limit,
                   remotive_params, calls, r, items, idx, jobs, exc>>

Next ==
    \/ BuildParams
    \/ RequestRaises
    \/ RequestReturns
    \/ HandleResponse
    \/ LoopStep
    \/ LoopExit
    \/ Except
    \/ Fallback
    \/ Return

Spec == Init /\ [][Next]_vars

-----------------------------------------------------------------------------
(* Vocabulary of the properties, written from the statements and not from  *)
(* the handler's operators                                                 *)

Present(x) == x # None /\ x # StrV(<<>>)

SynonymSet == {<<"r","e","m","o","t","e">>, <<"a","n","y","w","h","e","r","e">>, <<"w","o","r","l","d","w","i","d","e">>, <<"g","l","o","b","a","l">>}

IsProviderJob(j) == j.source = StrV(<<"R","e","m","o","t","i","v","e">>)
IsFallbackJob(j) == \E n \in 0..2 : j.id = StrV(<<"f","a","l","l","b","a","c","k","-">> \o <<Digits[n + 1]>>)

ProviderJobs(js) == SelectSeq(js, IsProviderJob)

FirstN(s, n) == [k \in 1..Min(n, Len(s)) |-> s[k]]

LacksTitle(item) ==
    \/ "title" \notin DOMAIN item.v
    \/ item.v["title"] = None
    \/ item.v["title"] = StrV(<<>>)

ExpectedTitle(item) == IF LacksTitle(item) THEN StrV(<<"U","n","t","i","t","l","e","d">>) ELSE item.v["title"]

Field(item, k) == IF k \in DOMAIN item.v THEN item.v[k] ELSE None

\* the canonical record of an upstream record
ExpectedJob(item) ==
    [id          |-> StrV(PyStr(Field(item, "id"))),
     title       |-> ExpectedTitle(item),
     company     |-> Field(item, "company_name"),
     location    |-> Field(item, "candidate_required_location"),
     type        |-> Field(item, "job_type"),
     salary      |-> Field(item, "salary"),
     url         |-> Field(item, "url"),
     source      |-> StrV(<<"R","e","m","o","t","i","v","e">>),
     tags        |-> Field(item, "tags"),
     description |-> Field(item, "description")]

\* a record from which no Job can be built
Malformed(item) ==
    \/ item.t # "dict"
    \/ Field(item, "url").t # "str"
    \/ ExpectedTitle(item).t # "str"
    \/ \E k \in {"company_name", "candidate_required_location", "job_type",
                 "salary", "description"} : Field(item, k).t \notin {"none", "str"}
    \/ Field(item, "tags").t \notin {"none", "list"}

\* position of the first malformed record, Len + 1 when there is none
FirstBad(its) ==
    IF \E i \in 1..Len(its) : Malformed(its[i])
    THEN CHOOSE i \in 1..Len(its) :
            Malformed(its[i]) /\ \A k \in 1..(i - 1) : ~Malformed(its[k])
    ELSE Len(its) + 1

\* lower-cased location of a canonical record, "" when absent
RecLoc(j) == IF j.location = None THEN <<>> ELSE Lower(j.location.v)

LooksRemote(j) == \E s \in SynonymSet : Contains(RecLoc(j), s)

PassesLocation(j, loc) ==
    Present(loc) =>
        \/ Contains(RecLoc(j), Lower(loc.v))
        \/ (Strip(Lower(loc.v)) \in SynonymSet /\ LooksRemote(j))

PassesRemote(j, rem) == (rem = BoolV(TRUE)) => LooksRemote(j)

\* canonical records of the first n upstream records
Canonical(n) == [i \in 1..n |-> ExpectedJob(items[i])]

\* the records among the first n that pass the filters for a remote flag
Kept(n, rem) ==
    SelectSeq(Canonical(n), LAMBDA j : PassesLocation(j, location) /\ PassesRemote(j, rem))

KeptByLocation(n) == SelectSeq(Canonical(n), LAMBDA j : PassesLocation(j, location))

LoopFailed == exc \in {"AttributeError", "ValidationError"} /\ r.ok
                 /\ r.body.t = "dict" /\ "jobs" \in DOMAIN r.body.v

ProviderFailed == exc # "none" \/ ~r.ok

ProviderSucceeded == r.ok /\ exc = "none"

-----------------------------------------------------------------------------
(* Properties                                                              *)

\* C1: whatever the inputs and the upstream outcome, the returned list has at
\* most `limit` elements.
C1_LengthWithinLimit == pc = "done" => Len(result) <= limit

C1_Witness == pc = "done" /\ Len(jobs) > limit /\ Len(result) = limit

\* C2 as stated: after any failure of the provider step, a malformed record
\* at any position included, the response holds no provider-sourced Job.
C2_AsStated ==
    (pc = "done" /\ ProviderFailed) => \A i \in 1..Len(result) : ~IsProviderJob(result[i])

\* C2 as amended: a failure of the request, the status or the body leaves no
\* provider-sourced Job; a malformed record at position k leaves exactly the
\* records before k that pass the filters (cut to limit), and drops record k
\* and every later record.
C2_FailureKeepsPrefix ==
    (pc = "done" /\ ProviderFailed) =>
        /\ ~LoopFailed => \A i \in 1..Len(result) : ~IsProviderJob(result[i])
        /\ LoopFailed =>
             /\ FirstBad(items) <= Len(items)
             /\ ProviderJobs(result) = FirstN(Kept(FirstBad(items) - 1, remote), limit)

C2_Witness ==
    /\ pc = "done" /\ LoopFailed
    /\ FirstBad(items) = 2
    /\ Len(result) = 1 /\ IsProviderJob(result[1])

FallbackIds == <<StrV(<<"f","a","l","l","b","a","c","k","-","0">>), StrV(<<"f","a","l","l","b","a","c","k","-","1">>), StrV(<<"f","a","l","l","b","a","c","k","-","2">>)>>

Unreachable == exc = "RequestException"

\* C3 as stated: provider unreachable and a non-empty query give exactly the
\* three fallback entries, for every limit.
C3_AsStated ==
    (pc = "done" /\ Unreachable /\ Present(query)) =>
        /\ [i \in 1..Len(result) |-> result[i].id] = FallbackIds
        /\ \A i \in 1..Len(result) : Contains(result[i].title.v, query.v)

\* C3 as amended: provider unreachable and a non-empty query give the first
\* min(limit, 3) of the fallback entries fallback-0, fallback-1, fallback-2,
\* in that order, each title containing the query text.
C3_FallbackCutToLimit ==
    (pc = "done" /\ Unreachable /\ Present(query)) =>
        /\ [i \in 1..Len(result) |-> result[i].id] = FirstN(FallbackIds, limit)
        /\ \A i \in 1..Len(result) : Contains(result[i].title.v, query.v)

C3_Witness ==
    /\ pc = "done" /\ Unreachable /\ Present(query) /\ Present(location)
    /\ limit = 2 /\ Len(result) = 2

IsJob(j) == DOMAIN j = JobFields /\ ValidJob(j)

\* C4: every invocation ends by returning a list of Job; no outcome of the
\* provider step reaches the caller as an error.
\* number of steps the invocation can still take, at most
StepsLeft ==
    CASE pc = "params"   -> MaxItems + 7
      [] pc = "request"  -> MaxItems + 6
      [] pc = "response" -> MaxItems + 5
      [] pc = "loop"     -> (Len(items) + 1 - idx) + 4
      [] pc = "except"   -> 3
      [] pc = "fallback" -> 2
      [] pc = "trim"     -> 1
      [] OTHER           -> 0

\* some step of the handler can be taken
CanStep ==
    \/ pc \in {"params", "request", "response", "except", "fallback", "trim"}
    \/ pc = "loop" /\ idx <= Len(items) + 1

C4_AlwaysReturnsJobs ==
    [][/\ pc' # "error"
       /\ StepsLeft' < StepsLeft
       /\ pc' # "done" => CanStep'
       /\ pc' = "done" => \A i \in 1..Len(result') : IsJob(result'[i])]_vars

C4_Witness == pc = "done" /\ exc = "ValidationError" /\ Len(result) > 0

\* C5: with a location supplied, a record is kept by the location filter
\* exactly when its location contains the lower-cased filter or the filter,
\* lower-cased and trimmed, is a synonym of remote and the record's location
\* contains a synonym too; without a location every record passes.
C5_LocationFilter ==
    pc = "fallback" =>
        /\ \A i \in 1..Len(jobs) : PassesLocation(jobs[i], location)
        /\ remote # BoolV(TRUE) => jobs = KeptByLocation(idx - 1)
        /\ ~Present(location) => jobs = Kept(idx - 1, remote)

C5_Witness ==
    /\ pc = "done" /\ location = StrV(<<" ","R","e","m","o","t","e"," ">>) /\ remote = None
    /\ Len(items) = 2
    /\ Field(items[1], "candidate_required_location") = StrV(<<"B","e","r","l","i","n",","," ","G","e","r","m","a","n","y">>)
    /\ Field(items[2], "candidate_required_location") = StrV(<<"A","n","y","w","h","e","r","e"," ","i","n"," ","t","h","e"," ","W","o","r","l","d">>)
    /\ Len(result) = 1 /\ result[1].location = StrV(<<"A","n","y","w","h","e","r","e"," ","i","n"," ","t","h","e"," ","W","o","r","l","d">>)

\* the response when the remote flag is absent: records kept by location
\* alone, else the fallback entries, cut to limit
ResponseWithoutRemote ==
    LET kept == KeptByLocation(FirstBad(items) - 1)
    IN  FirstN(IF kept = <<>> /\ (Present(query) \/ Present(location))
               THEN FallbackJobs(query, location)
               ELSE kept, limit)

\* C6: remote=true keeps a record only if its location names a synonym of
\* remote; remote=false gives the response of an absent remote flag.
C6_RemoteFilter ==
    /\ (pc = "fallback" /\ remote = BoolV(TRUE)) =>
          /\ \A i \in 1..Len(jobs) : LooksRemote(jobs[i])
          /\ jobs = Kept(idx - 1, BoolV(TRUE))
    /\ (pc = "done" /\ remote \in {None, BoolV(FALSE)}) => result = ResponseWithoutRemote

C6_Witness ==
    /\ pc = "done" /\ remote = BoolV(TRUE) /\ ~Present(location)
    /\ Len(items) = 2 /\ exc = "none"
    /\ Field(items[1], "candidate_required_location") = StrV(<<"B","e","r","l","i","n",","," ","G","e","r","m","a","n","y">>)
    /\ Field(items[2], "candidate_required_location") = None
    /\ \A i \in 1..Len(result) : ~IsProviderJob(result[i])

C6_WitnessFalse ==
    /\ pc = "done" /\ remote = BoolV(FALSE)
    /\ Len(result) = 1 /\ result[1].location = StrV(<<"B","e","r","l","i","n",","," ","G","e","r","m","a","n","y">>)

FallbackSources == <<StrV(<<"G","o","o","g","l","e"," ","J","o","b","s">>), StrV(<<"L","i","n","k","e","d","I","n">>), StrV(<<"I","n","d","e","e","d">>)>>

\* C7: fallback entries are made exactly when no fetched record is left and
\* a non-empty query or location was given; then the list before truncation
\* is the three entries fallback-0, fallback-1, fallback-2 in provider order.
C7_FallbackIff ==
    pc = "trim" =>
        LET made == \E i \in 1..Len(jobs) : IsFallbackJob(jobs[i])
        IN  /\ made <=> (ProviderJobs(jobs) = <<>> /\ (Present(query) \/ Present(location)))
            /\ made =>
                 /\ [i \in 1..Len(jobs) |-> jobs[i].id] = FallbackIds
                 /\ [i \in 1..Len(jobs) |-> jobs[i].source] = FallbackSources

C7_Witness ==
    /\ pc = "trim" /\ ProviderSucceeded /\ Len(items) = 2
    /\ ~Present(query) /\ Present(location)
    /\ Len(jobs) = 3 /\ IsFallbackJob(jobs[1])

C7_WitnessNoTerms ==
    /\ pc = "done" /\ Unreachable /\ ~Present(query) /\ ~Present(location)
    /\ result = <<>>

\* the upstream records, among the first n, that pass the filters
KeptItems(n) ==
    SelectSeq([i \in 1..n |-> items[i]],
              LAMBDA it : /\ PassesLocation(ExpectedJob(it), location)
                          /\ PassesRemote(ExpectedJob(it), remote))

\* C8: a record without title (absent, null or empty) becomes a Job titled
\* "Untitled", is filtered and returned like the others; any other title is
\* kept as it is.
C8_UntitledDefault ==
    /\ pc = "fallback" =>
          LET kept == KeptItems(idx - 1)
          IN  [k \in 1..Len(jobs) |-> jobs[k].title]
                 = [k \in 1..Len(kept) |->
                       IF LacksTitle(kept[k]) THEN StrV(<<"U","n","t","i","t","l","e","d">>)
                       ELSE kept[k].v["title"]]
    /\ (pc = "except" /\ exc = "ValidationError") =>
          Field(items[idx], "url").t # "str"

C8_Witness ==
    /\ pc = "done" /\ Len(items) = 2 /\ Len(result) = 2
    /\ "title" \notin DOMAIN items[1].v /\ result[1].title = StrV(<<"U","n","t","i","t","l","e","d">>)
    /\ items[2].v["title"] = StrV(<<"D","e","v">>) /\ result[2].title = StrV(<<"D","e","v">>)

\* C9: when the provider step succeeds and n > 0 records pass both filters,
\* the response is the first min(limit, n) of them in upstream order.
C9_OrderedPrefix ==
    (pc = "done" /\ ProviderSucceeded /\ Len(Kept(Len(items), remote)) > 0) =>
        LET passing == Kept(Len(items), remote)
        IN  /\ Len(result) = Min(limit, Len(passing))
            /\ \A k \in 1..Len(result) : result[k] = passing[k]

C9_Witness ==
    /\ pc = "done" /\ ProviderSucceeded /\ Len(items) = 2
    /\ Len(Kept(Len(items), remote)) = 2 /\ limit = 1
    /\ items[1] # items[2] /\ result = <<ExpectedJob(items[1])>>

UpstreamKeys == {"search", "category", "job_type"}

\* C10: the request carries search, category and job_type, each exactly when
\* the input is present and non-empty, never location or remote; exactly one
\* outbound call is made per invocation, whatever its outcome.
C10_RequestShape ==
    /\ pc # "params" =>
          /\ DOMAIN remotive_params \subseteq UpstreamKeys
          /\ ("search" \in DOMAIN remotive_params) <=> Present(query)
          /\ ("category" \in DOMAIN remotive_params) <=> Present(category)
          /\ ("job_type" \in DOMAIN remotive_params) <=> Present(job_type)
          /\ Present(query) => remotive_params["search"] = query.v
          /\ Present(category) => remotive_params["category"] = category.v
          /\ Present(job_type) => remotive_params["job_type"] = job_type.v
    /\ calls = IF pc \in {"params", "request"} THEN 0 ELSE 1

C10_Witness ==
    /\ pc = "done" /\ calls = 1 /\ Unreachable
    /\ Present(location) /\ remote = BoolV(TRUE) /\ ~Present(category)
    /\ DOMAIN remotive_params = {"search", "job_type"}

====
